---- MODULE Spec2Model ----
(***************************************************************************)
(* State-machine model of BinanceFuturesRest                               *)
(* (src/simplified_binance_futures_bot.py) and of the values its callers   *)
(* (main, src/frontend.py) hand to it.                                     *)
(*                                                                         *)
(* Conventions                                                             *)
(*   - a Python dict is a sequence of <<key, value>> pairs in insertion    *)
(*     order; values are strings (str() is applied when a value is stored) *)
(*   - an optional number is <<>> (None) or <<v>>, v in millionths         *)
(*     (0.001 is <<1000>>)                                                 *)
(*   - a text that the code only concatenates (a query string, a log line, *)
(*     an exception message) is the sequence of the pieces concatenated    *)
(*   - each thread runs one invocation at a time; net, log, ts, signed,    *)
(*     body, oresp, outcome hold what the thread's CURRENT invocation did  *)
(*     (its network requests, its lines of bot.log, ...) and are cleared   *)
(*     when the thread starts its next invocation                          *)
(***************************************************************************)
EXTENDS Integers, Sequences, FiniteSets, TLC

\* ------------------------------------------------------------ bounds
NumThreads == 2
MaxCalls == 2

Threads == 1..NumThreads

\* ------------------------------------------------------------ configuration
TESTNET_BASE == "https://testnet.binancefuture.com"
API_ORDER_PATH == "/fapi/v1/order"
API_TIME_PATH == "/fapi/v1/time"

ApiKey == "KEY-1"
ApiSecret == "SECRET-1"

None == <<>>

\* ------------------------------------------------------------ input domains
Symbols == {"BTCUSDT"}
Sides == {"BUY", "SELL"}
TimeInForces == {"GTC", "IOC"}
\* frontend.py:14: min_value=0.0001, value=0.001
Quantities == {<<100>>, <<1000>>}
\* frontend.py:20: min_value=0.0 lets 0.0 through; a direct caller may omit the price
Prices == {None, <<0>>, <<2500000>>}
\* frontend.py:23
StopPrices == {None, <<2400000>>}
Methods == {"POST", "GET", "DELETE"}

ServerTimes == {1001, 1002}
LocalTimes == {2001}

\* ------------------------------------------------------------ dict helpers
Keys(d) == [i \in 1..Len(d) |-> d[i][1]]

HasKey(d, k) == \E i \in 1..Len(d) : d[i][1] = k

\* d[k] = v : an existing key keeps its position, a new key goes last
DictSet(d, k, v) ==
    IF HasKey(d, k)
    THEN [i \in 1..Len(d) |-> IF d[i][1] = k THEN <<k, v>> ELSE d[i]]
    ELSE Append(d, <<k, v>>)

\* d.get(k): <<>> when absent, <<value>> otherwise
DictGet(d, k) ==
    IF HasKey(d, k) THEN <<d[CHOOSE i \in 1..Len(d) : d[i][1] = k][2]>> ELSE <<>>

Contains(s, x) == \E i \in 1..Len(s) : s[i] = x

RECURSIVE Join(_)
Join(s) == IF Len(s) = 0 THEN "" ELSE s[1] \o Join(Tail(s))

\* ------------------------------------------------------------ pure functions
\* float(x) raises TypeError on None
CanFloat(x) == Len(x) = 1

Pad6(n) ==
    IF n < 10 THEN "00000" \o ToString(n)
    ELSE IF n < 100 THEN "0000" \o ToString(n)
    ELSE IF n < 1000 THEN "000" \o ToString(n)
    ELSE IF n < 10000 THEN "00" \o ToString(n)
    ELSE IF n < 100000 THEN "0" \o ToString(n)
    ELSE ToString(n)

\* format(float(x), 'f'): fixed point, six decimals
FormatF(x) ==
    LET v == x[1]
        a == IF v < 0 THEN 0 - v ELSE v
    IN  (IF v < 0 THEN "-" ELSE "") \o ToString(a \div 1000000) \o "." \o Pad6(a % 1000000)

fmt_qty(q) == FormatF(q)

fmt_price(p) == FormatF(p)

\* str(b).lower()
BoolStr(b) == IF b THEN "true" ELSE "false"

\* urlencode(data, doseq=True): k=v joined by &
RECURSIVE urlencode(_)
urlencode(d) ==
    IF Len(d) = 0 THEN <<>>
    ELSE IF Len(d) = 1 THEN <<d[1][1], "=", d[1][2]>>
    ELSE <<d[1][1], "=", d[1][2], "&">> \o urlencode(Tail(d))

\* hmac.new(key, msg, sha256).hexdigest() as a free (injective) term: the digest
\* is one opaque string, from which neither the key nor the message can be read
HmacHex(key, msg) == "hmac-sha256<" \o key \o "|" \o Join(msg) \o ">"

sign(api_secret, data) == HmacHex(api_secret, urlencode(data))

\* ------------------------------------------------------------ payloads
market_payload(symbol, side, quantity, reduceOnly) ==
    << <<"symbol", symbol>>,
       <<"side", side>>,
       <<"type", "MARKET">>,
       <<"quantity", fmt_qty(quantity)>>,
       <<"reduceOnly", BoolStr(reduceOnly)>> >>

\* mutant of limit_payload: quantity emitted before timeInForce
limit_payload_reordered(symbol, side, quantity, price, timeInForce, reduceOnly) ==
    << <<"symbol", symbol>>,
       <<"side", side>>,
       <<"type", "LIMIT">>,
       <<"quantity", fmt_qty(quantity)>>,
       <<"timeInForce", timeInForce>>,
       <<"price", fmt_price(price)>>,
       <<"reduceOnly", BoolStr(reduceOnly)>> >>

limit_payload(symbol, side, quantity, price, timeInForce, reduceOnly) ==
    << <<"symbol", symbol>>,
       <<"side", side>>,
       <<"type", "LIMIT">>,
       <<"timeInForce", timeInForce>>,
       <<"quantity", fmt_qty(quantity)>>,
       <<"price", fmt_price(price)>>,
       <<"reduceOnly", BoolStr(reduceOnly)>> >>

stop_limit_payload(symbol, side, quantity, stopPrice, price, timeInForce, reduceOnly) ==
    << <<"symbol", symbol>>,
       <<"side", side>>,
       <<"type", "STOP">>,
       <<"quantity", fmt_qty(quantity)>>,
       <<"stopPrice", fmt_price(stopPrice)>>,
       <<"price", fmt_price(price)>>,
       <<"timeInForce", timeInForce>>,
       <<"reduceOnly", BoolStr(reduceOnly)>> >>

\* ------------------------------------------------------------ the remote side
\* what a request can come back with: no response at all (DNS, refused, timeout,
\* TLS: the session call raises), or a status and a body text
NoResponse == [got |-> FALSE, status |-> 0, text |-> ""]

Response(status, text) == [got |-> TRUE, status |-> status, text |-> text]

TimeText(t) == "{\"serverTime\":" \o ToString(t) \o "}"

HtmlText == "<html>Bad Gateway</html>"
OrderOkText == "{\"orderId\":1,\"status\":\"NEW\"}"
OrderErrText == "{\"code\":-1111,\"msg\":\"Precision is over the maximum defined for this asset.\"}"

TimeResponses ==
    {NoResponse, Response(500, HtmlText), Response(200, HtmlText),
     Response(200, "[]"), Response(200, "{}"), Response(200, TimeText(0))}
    \cup {Response(200, TimeText(t)) : t \in ServerTimes}

OrderResponses ==
    {NoResponse, Response(200, OrderOkText), Response(200, HtmlText),
     Response(304, OrderOkText), Response(400, OrderErrText), Response(502, HtmlText)}

\* r.json(): ok = the text parses; isdict = it is an object; d = its members
json(text) ==
    IF text = OrderOkText
    THEN [ok |-> TRUE, isdict |-> TRUE, d |-> << <<"orderId", "1">>, <<"status", "NEW">> >>]
    ELSE IF text = OrderErrText
    THEN [ok |-> TRUE, isdict |-> TRUE,
          d |-> << <<"code", "-1111">>,
                   <<"msg", "Precision is over the maximum defined for this asset.">> >>]
    ELSE IF text = "{}" THEN [ok |-> TRUE, isdict |-> TRUE, d |-> <<>>]
    ELSE IF text = "[]" THEN [ok |-> TRUE, isdict |-> FALSE, d |-> <<>>]
    ELSE IF \E t \in ServerTimes \cup {0} : text = TimeText(t)
    THEN [ok |-> TRUE, isdict |-> TRUE,
          d |-> << <<"serverTime", CHOOSE t \in ServerTimes \cup {0} : text = TimeText(t)>> >>]
    ELSE [ok |-> FALSE, isdict |-> FALSE, d |-> <<>>]

\* Response.raise_for_status() raises HTTPError for 400 <= status < 600
raise_for_status(r) == r.status >= 400 /\ r.status < 600

\* str(HTTPError): "<status> Client|Server Error: <reason> for url: <url>"
HTTPErrorMsg(r, url) ==
    <<ToString(r.status), IF r.status < 500 THEN " Client Error" ELSE " Server Error",
      " for url: ">> \o url

\* str(dict)
RECURSIVE DictStr(_)
DictStr(d) ==
    IF Len(d) = 0 THEN <<>>
    ELSE <<"'", d[1][1], "': ", d[1][2]>> \o (IF Len(d) = 1 THEN <<>> ELSE <<", ">>) \o DictStr(Tail(d))

LogLine(level, msg) == [level |-> level, msg |-> msg]

\* ------------------------------------------------------------ _get_timestamp
\* mutant of get_timestamp: the except clause is missing, a failed GET propagates
get_timestamp_unguarded(r, now) ==
    IF r.got /\ ~raise_for_status(r) /\ json(r.text).ok /\ json(r.text).isdict
       /\ DictGet(json(r.text).d, "serverTime") \notin {<<>>, <<0>>}
    THEN [value |-> DictGet(json(r.text).d, "serverTime")[1], raised |-> FALSE, log |-> <<>>]
    ELSE [value |-> now, raised |-> ~r.got, log |-> <<>>]

\* r: what the GET of /fapi/v1/time came back with; now: int(time.time() * 1000).
\* raised: an exception leaves the function; log: the lines it writes
get_timestamp(r, now) ==
    LET url == <<TESTNET_BASE \o API_TIME_PATH>>
        fallback(e) ==
            [value |-> now, raised |-> FALSE,
             log |-> <<LogLine("WARNING", <<"Could not fetch server time: ">> \o e
                                           \o <<" - falling back to local time">>)>>]
    IN  IF ~r.got THEN fallback(<<"ConnectionError: ">> \o url)
        ELSE IF raise_for_status(r) THEN fallback(HTTPErrorMsg(r, url))
        ELSE IF ~json(r.text).ok THEN fallback(<<"Expecting value: line 1 column 1 (char 0)">>)
        ELSE IF ~json(r.text).isdict THEN fallback(<<"'list' object has no attribute 'get'">>)
        ELSE LET server_time == DictGet(json(r.text).d, "serverTime")
             IN  IF server_time # <<>> /\ server_time[1] # 0
                 THEN [value |-> server_time[1], raised |-> FALSE, log |-> <<>>]
                 ELSE [value |-> now, raised |-> FALSE, log |-> <<>>]

\* ------------------------------------------------------------ _send_signed, lines 89-109
NoOutcome ==
    [kind |-> "none", exc |-> "", handler |-> "", msg |-> <<>>, value |-> <<>>,
     response |-> NoResponse]

Return(v) ==
    [kind |-> "return", exc |-> "", handler |-> "", msg |-> <<>>, value |-> v,
     response |-> NoResponse]

\* an exception leaving the function: its type, the except clause that logged and
\* re-raised it ("http": line 100, "generic": line 107, "": none), str(e), e.response
Raise(exc, handler, msg, r) ==
    [kind |-> "raise", exc |-> exc, handler |-> handler, msg |-> msg, value |-> <<>>,
     response |-> r]

\* the request the session issues: data is the body, params the query string
Request(method, url, data, params) ==
    [method |-> method, url |-> url, data |-> data, params |-> params]

\* lines 90-95
order_request(method, url, payload, body) ==
    IF method \in {"POST", "DELETE"} THEN Request(method, url, body, <<>>)
    ELSE Request("GET", url, <<>>, urlencode(payload))

\* r.url / the url an exception names
FullUrl(req) == IF Len(req.params) = 0 THEN <<req.url>> ELSE <<req.url, "?">> \o req.params

\* lines 89-109 once the session call has come back with r (or has raised)
send_result(req, r) ==
    IF ~r.got
    THEN LET e == <<"ConnectionError: ">> \o FullUrl(req)
         IN  [outcome |-> Raise("ConnectionError", "generic", e, NoResponse),
              log |-> <<LogLine("ERROR", <<"Network/Error: ">> \o e)>>]
    ELSE LET seen == LogLine("DEBUG", <<"RESPONSE [", ToString(r.status), "] -> ", r.text>>)
         IN  IF raise_for_status(r)
             THEN LET he == HTTPErrorMsg(r, FullUrl(req))
                      err == IF json(r.text).ok THEN DictStr(json(r.text).d) ELSE <<r.text>>
                  IN  [outcome |-> Raise("HTTPError", "http", he, r),
                       log |-> <<seen, LogLine("ERROR", <<"HTTP error: ">> \o he
                                                  \o <<" | response: ">> \o err)>>]
             ELSE IF json(r.text).ok
             THEN [outcome |-> Return(json(r.text).d), log |-> <<seen>>]
             ELSE LET e == <<"Expecting value: line 1 column 1 (char 0)">>
                  IN  [outcome |-> Raise("JSONDecodeError", "generic", e, NoResponse),
                       log |-> <<seen, LogLine("ERROR", <<"Network/Error: ">> \o e)>>]

\* mutant of AfterRequest: a failed request is issued again
AfterRequestRetry(o) == IF o.kind = "raise" THEN "send" ELSE "done"

\* where control goes when lines 89-109 end: out of the call
AfterRequest(o) == "done"

\* ------------------------------------------------------------ state
VARIABLES
    self,      \* the client: api_key, api_secret, base
    ncalls,    \* invocations started so far
    pc,        \* thread -> "idle", "timestamp" (at line 83), "sign" (84), "send" (89), "done"
    entry,     \* thread -> the operation it invoked
    intent,    \* thread -> the arguments it invoked it with
    method,    \* thread -> _send_signed's method
    payload,   \* frame -> the payload dict of the invocation
    ts,        \* thread -> what _get_timestamp was answered and returned
    signed,    \* thread -> the string _sign computed the digest of
    body,      \* thread -> body (line 86)
    net,       \* thread -> the requests the invocation issued
    oresp,     \* thread -> what the order request came back with
    outcome,   \* thread -> how the invocation ended
    log        \* thread -> the lines the invocation wrote to the log

vars == <<self, ncalls, pc, entry, intent, method, payload, ts, signed, body, net, oresp,
          outcome, log>>

\* mutant of Frame: the payload is kept on the client, one for all invocations
FrameOnClient(c) == 1

\* payload is a local name: each invocation has a frame of its own
Frame(c) == c

NoIntent ==
    [symbol |-> "", side |-> "", quantity |-> None, price |-> None, stopPrice |-> None,
     timeInForce |-> ""]

Intent(symbol, side, quantity, price, stopPrice, timeInForce) ==
    [symbol |-> symbol, side |-> side, quantity |-> quantity, price |-> price,
     stopPrice |-> stopPrice, timeInForce |-> timeInForce]

NoTs == [fetched |-> FALSE, resp |-> NoResponse, now |-> 0, value |-> 0]

\* BinanceFuturesRest.__init__
Init ==
    /\ self = [api_key |-> ApiKey, api_secret |-> ApiSecret, base |-> TESTNET_BASE]
    /\ ncalls = 0
    /\ pc = [c \in Threads |-> "idle"]
    /\ entry = [c \in Threads |-> ""]
    /\ intent = [c \in Threads |-> NoIntent]
    /\ method = [c \in Threads |-> ""]
    /\ payload = [c \in Threads |-> <<>>]
    /\ ts = [c \in Threads |-> NoTs]
    /\ signed = [c \in Threads |-> <<>>]
    /\ body = [c \in Threads |-> <<>>]
    /\ net = [c \in Threads |-> <<>>]
    /\ oresp = [c \in Threads |-> NoResponse]
    /\ outcome = [c \in Threads |-> NoOutcome]
    /\ log = [c \in Threads |-> <<>>]

\* thread c, free, invokes operation e
Invoke(c, e, it, m) ==
    /\ pc[c] \in {"idle", "done"}
    /\ ncalls < MaxCalls
    /\ ncalls' = ncalls + 1
    /\ entry' = [entry EXCEPT ![c] = e]
    /\ intent' = [intent EXCEPT ![c] = it]
    /\ method' = [method EXCEPT ![c] = m]
    /\ ts' = [ts EXCEPT ![c] = NoTs]
    /\ signed' = [signed EXCEPT ![c] = <<>>]
    /\ body' = [body EXCEPT ![c] = <<>>]
    /\ net' = [net EXCEPT ![c] = <<>>]
    /\ oresp' = [oresp EXCEPT ![c] = NoResponse]
    /\ log' = [log EXCEPT ![c] = <<>>]
    /\ UNCHANGED self

\* the wrapper builds its payload and calls _send_signed('POST', ...), or a
\* float(None) in the dict display raises TypeError before anything else happens
Place(c, ok, p) ==
    IF ok
    THEN /\ payload' = [payload EXCEPT ![Frame(c)] = p]
         /\ pc' = [pc EXCEPT ![c] = "timestamp"]
         /\ outcome' = [outcome EXCEPT ![c] = NoOutcome]
    ELSE /\ payload' = [payload EXCEPT ![Frame(c)] = <<>>]
         /\ pc' = [pc EXCEPT ![c] = "done"]
         /\ outcome' = [outcome EXCEPT ![c] =
                Raise("TypeError", "", <<"float() argument must be a string or a number">>,
                      NoResponse)]

place_market_order(c, symbol, side, quantity) ==
    /\ Invoke(c, "market", Intent(symbol, side, quantity, None, None, ""), "POST")
    /\ Place(c, CanFloat(quantity),
             IF CanFloat(quantity) THEN market_payload(symbol, side, quantity, FALSE) ELSE <<>>)

place_limit_order(c, symbol, side, quantity, price, timeInForce) ==
    /\ Invoke(c, "limit", Intent(symbol, side, quantity, price, None, timeInForce), "POST")
    /\ Place(c, CanFloat(quantity) /\ CanFloat(price),
             IF CanFloat(quantity) /\ CanFloat(price)
             THEN limit_payload(symbol, side, quantity, price, timeInForce, FALSE) ELSE <<>>)

place_stop_limit_order(c, symbol, side, quantity, stopPrice, price, timeInForce) ==
    /\ Invoke(c, "stop_limit", Intent(symbol, side, quantity, price, stopPrice, timeInForce),
              "POST")
    /\ Place(c, CanFloat(quantity) /\ CanFloat(stopPrice) /\ CanFloat(price),
             IF CanFloat(quantity) /\ CanFloat(stopPrice) /\ CanFloat(price)
             THEN stop_limit_payload(symbol, side, quantity, stopPrice, price, timeInForce,
                                     FALSE)
             ELSE <<>>)

\* a caller of the class calls _send_signed(m, API_ORDER_PATH, p) with a dict p of its own
send_signed(c, m, p) ==
    /\ Invoke(c, "send_signed", NoIntent, m)
    /\ payload' = [payload EXCEPT ![Frame(c)] = p]
    /\ pc' = [pc EXCEPT ![c] = "timestamp"]
    /\ outcome' = [outcome EXCEPT ![c] = NoOutcome]

\* ... and, the call over, calls it again with the same dict
send_signed_again(c, m) ==
    /\ entry[c] = "send_signed"
    /\ Invoke(c, "send_signed", NoIntent, m)
    /\ pc' = [pc EXCEPT ![c] = "timestamp"]
    /\ outcome' = [outcome EXCEPT ![c] = NoOutcome]
    /\ UNCHANGED payload

\* line 83: payload['timestamp'] = self._get_timestamp()
send_signed_timestamp(c, r, now) ==
    LET t == get_timestamp(r, now)
    IN  /\ pc[c] = "timestamp"
        /\ net' = [net EXCEPT ![c] =
               Append(@, Request("GET", self.base \o API_TIME_PATH, <<>>, <<>>))]
        /\ ts' = [ts EXCEPT ![c] = [fetched |-> TRUE, resp |-> r, now |-> now,
                                     value |-> IF t.raised THEN 0 ELSE t.value]]
        /\ log' = [log EXCEPT ![c] = @ \o t.log]
        /\ IF t.raised
           THEN /\ pc' = [pc EXCEPT ![c] = "done"]
                /\ outcome' = [outcome EXCEPT ![c] =
                       Raise("ConnectionError", "", <<"ConnectionError">>, NoResponse)]
                /\ UNCHANGED payload
           ELSE /\ pc' = [pc EXCEPT ![c] = "sign"]
                /\ payload' = [payload EXCEPT ![Frame(c)] =
                       DictSet(@, "timestamp", ToString(t.value))]
                /\ UNCHANGED outcome
        /\ UNCHANGED <<self, ncalls, entry, intent, method, signed, body, oresp>>

\* lines 84-88: sign, append the signature, encode, log the request
send_signed_sign(c) ==
    LET p == payload[Frame(c)]
        signature == sign(self.api_secret, p)
        q == DictSet(p, "signature", signature)
    IN  /\ pc[c] = "sign"
        /\ signed' = [signed EXCEPT ![c] = urlencode(p)]
        /\ payload' = [payload EXCEPT ![Frame(c)] = q]
        /\ body' = [body EXCEPT ![c] = urlencode(q)]
        /\ log' = [log EXCEPT ![c] =
               Append(@, LogLine("DEBUG",
                   <<"REQUEST -> ", method[c], " ", self.base \o API_ORDER_PATH, " | body: ">>
                   \o urlencode(q)))]
        /\ pc' = [pc EXCEPT ![c] = "send"]
        /\ UNCHANGED <<self, ncalls, entry, intent, method, ts, net, oresp, outcome>>

\* lines 89-109: one request to the order endpoint, its response logged and returned,
\* or the failure logged and re-raised
send_signed_request(c, r) ==
    LET req == order_request(method[c], self.base \o API_ORDER_PATH, payload[Frame(c)], body[c])
        res == send_result(req, r)
    IN  /\ pc[c] = "send"
        /\ net' = [net EXCEPT ![c] = Append(@, req)]
        /\ oresp' = [oresp EXCEPT ![c] = r]
        /\ log' = [log EXCEPT ![c] = @ \o res.log]
        /\ outcome' = [outcome EXCEPT ![c] =
               IF AfterRequest(res.outcome) = "done" THEN res.outcome ELSE @]
        /\ pc' = [pc EXCEPT ![c] = AfterRequest(res.outcome)]
        /\ UNCHANGED <<self, ncalls, entry, intent, method, payload, ts, signed, body>>

\* ------------------------------------------------------------ specifications
\* the dicts a direct caller of _send_signed passes
DirectPayloads == {market_payload("BTCUSDT", "SELL", <<1000>>, TRUE)}

\* one caller: every operation, every input, every answer of the remote side
Caller == 1

Next ==
    \/ \E symbol \in Symbols, side \in Sides, quantity \in Quantities :
          place_market_order(Caller, symbol, side, quantity)
    \/ \E symbol \in Symbols, side \in Sides, quantity \in Quantities, price \in Prices,
          timeInForce \in TimeInForces :
          place_limit_order(Caller, symbol, side, quantity, price, timeInForce)
    \/ \E symbol \in Symbols, side \in Sides, quantity \in Quantities,
          stopPrice \in StopPrices, price \in Prices, timeInForce \in TimeInForces :
          place_stop_limit_order(Caller, symbol, side, quantity, stopPrice, price, timeInForce)
    \/ \E m \in Methods, p \in DirectPayloads : send_signed(Caller, m, p)
    \/ \E m \in Methods : send_signed_again(Caller, m)
    \/ \E r \in TimeResponses, now \in LocalTimes : send_signed_timestamp(Caller, r, now)
    \/ send_signed_sign(Caller)
    \/ \E r \in OrderResponses : send_signed_request(Caller, r)

Spec == Init /\ [][Next]_vars

\* NumThreads callers sharing the client, their place_* calls interleaved step by step
ConcTimeResponses == {NoResponse} \cup {Response(200, TimeText(t)) : t \in ServerTimes}
ConcOrderResponses == {NoResponse, Response(200, OrderOkText)}

NextConc ==
    \E c \in Threads :
        \/ place_market_order(c, "BTCUSDT", "BUY", <<1000>>)
        \/ place_limit_order(c, "BTCUSDT", "SELL", <<1000>>, <<2500000>>, "GTC")
        \/ place_stop_limit_order(c, "BTCUSDT", "SELL", <<1000>>, <<2400000>>, <<2500000>>, "IOC")
        \/ \E r \in ConcTimeResponses, now \in LocalTimes : send_signed_timestamp(c, r, now)
        \/ send_signed_sign(c)
        \/ \E r \in ConcOrderResponses : send_signed_request(c, r)

SpecConc == Init /\ [][NextConc]_vars

\* ------------------------------------------------------------ properties
OrderUrl == TESTNET_BASE \o API_ORDER_PATH
TimeUrl == TESTNET_BASE \o API_TIME_PATH

PlaceOps == {"market", "limit", "stop_limit"}

\* the invocation of thread c got as far as _send_signed's request
Requested(c) == pc[c] = "done" /\ Len(net[c]) = 2

Is2xx(r) == r.got /\ r.status >= 200 /\ r.status < 300

TimeRequests(c) == {i \in 1..Len(net[c]) : net[c][i].url = TimeUrl}
OrderRequests(c) == {i \in 1..Len(net[c]) : net[c][i].url = OrderUrl}

\* the keys of an encoded string k=v&k=v
EncodedKeys(q) == {q[i] : i \in {j \in 1..Len(q) : j % 4 = 1}}

\* C1: the string signed holds every other parameter and timestamp but no signature
\* field, and signature is the last key of the encoded request, for any payload given
\* to _send_signed, one given to an earlier call included
C1_SignedExcludesSignature ==
    \A c \in Threads :
        pc[c] \in {"send", "done"} /\ Len(body[c]) > 0 =>
            /\ "signature" \notin EncodedKeys(signed[c])
            /\ "timestamp" \in EncodedKeys(signed[c])
            /\ \A i \in 1..Len(payload[c]) :
                   payload[c][i][1] # "signature" => payload[c][i][1] \in EncodedKeys(signed[c])
            /\ body[c][Len(body[c]) - 2] = "signature"

Positive(x) == Len(x) = 1 /\ x[1] > 0

InvalidIntent(e, it) ==
    \/ ~Positive(it.quantity)
    \/ e \in {"limit", "stop_limit"} /\ ~Positive(it.price)
    \/ e = "stop_limit" /\ ~Positive(it.stopPrice)

\* C2: a place_* call with a missing price or stopPrice, or a quantity, price or
\* stopPrice that is not strictly positive, fails before any network call is made
C2_ValidationBeforeNetwork ==
    \A c \in Threads :
        entry[c] \in PlaceOps /\ InvalidIntent(entry[c], intent[c]) =>
            /\ Len(net[c]) = 0
            /\ pc[c] = "done" => outcome[c].kind = "raise"

\* C3: one invocation issues at most one request to the order endpoint and at most
\* one server-time request, whatever its outcome
C3_NoRetry ==
    \A c \in Threads :
        /\ Cardinality(TimeRequests(c)) <= 1
        /\ Cardinality(OrderRequests(c)) <= 1
        /\ Len(net[c]) <= 2

C3_Witness ==
    \E c \in Threads :
        /\ entry[c] \in PlaceOps
        /\ pc[c] = "done"
        /\ outcome[c].kind = "raise"
        /\ ~oresp[c].got
        /\ Cardinality(OrderRequests(c)) = 1
        /\ Cardinality(TimeRequests(c)) = 1

RemoteRejected(o) == o.kind = "raise" /\ o.handler = "http"
TransportFailure(o) == o.kind = "raise" /\ o.handler = "generic"

\* C4: a _send_signed call returns the decoded response when a 2xx response was
\* obtained, fails as RemoteRejected iff a non-2xx response was obtained, and fails as
\* TransportFailure iff no response was obtained
C4_ThreeOutcomes ==
    \A c \in Threads :
        Requested(c) =>
            /\ Is2xx(oresp[c]) =>
                   outcome[c].kind = "return" /\ outcome[c].value = json(oresp[c].text).d
            /\ RemoteRejected(outcome[c]) <=> (oresp[c].got /\ ~Is2xx(oresp[c]))
            /\ TransportFailure(outcome[c]) <=> ~oresp[c].got

\* C5: _get_timestamp never raises: whatever the server-time request came back with,
\* it returns the server-reported time or the local clock, and the call goes on to
\* sign and send the order, returning the response when the remote accepts it
C5_TimestampNeverRaises ==
    \A c \in Threads :
        ts[c].fetched =>
            /\ pc[c] \in {"sign", "send", "done"}
            /\ \/ ts[c].value = ts[c].now
               \/ ts[c].resp.got /\ ts[c].resp.text = TimeText(ts[c].value)
            /\ DictGet(payload[c], "timestamp") = <<ToString(ts[c].value)>>
            /\ pc[c] = "done" =>
                   /\ Cardinality(OrderRequests(c)) = 1
                   /\ Is2xx(oresp[c]) /\ json(oresp[c].text).ok =>
                          outcome[c].kind = "return"
                          /\ outcome[c].value = json(oresp[c].text).d

C5_Witness ==
    \E c \in Threads :
        /\ entry[c] \in PlaceOps
        /\ pc[c] = "done"
        /\ ~ts[c].resp.got
        /\ ts[c].value = ts[c].now
        /\ outcome[c].kind = "return"

TableRow(e) ==
    IF e = "market" THEN <<"symbol", "side", "type", "quantity", "reduceOnly">>
    ELSE IF e = "limit"
    THEN <<"symbol", "side", "type", "timeInForce", "quantity", "price", "reduceOnly">>
    ELSE <<"symbol", "side", "type", "quantity", "stopPrice", "price", "timeInForce",
           "reduceOnly">>

TableType(e) == IF e = "market" THEN "MARKET" ELSE IF e = "limit" THEN "LIMIT" ELSE "STOP"

\* C6: the payload built for an order holds exactly the fields of the table row of
\* its order type, in that order, with that type value, and nothing else before
\* timestamp and signature are added (after them: the row, then those two)
C6_PayloadFields ==
    \A c \in Threads :
        entry[c] \in PlaceOps /\ Len(payload[c]) > 0 =>
            /\ DictGet(payload[c], "type") = <<TableType(entry[c])>>
            /\ pc[c] = "timestamp" => Keys(payload[c]) = TableRow(entry[c])
            /\ pc[c] = "sign" => Keys(payload[c]) = TableRow(entry[c]) \o <<"timestamp">>
            /\ pc[c] \in {"send", "done"} =>
                   Keys(payload[c]) = TableRow(entry[c]) \o <<"timestamp", "signature">>

C6_Witness ==
    \E c \in Threads :
        /\ entry[c] = "limit"
        /\ ~InvalidIntent(entry[c], intent[c])
        /\ pc[c] = "timestamp"
        /\ Len(payload[c]) = 7

\* C7: no line written to the log holds the request signature or the API secret
C7_LogExcludesSecrets ==
    \A c \in Threads :
        \A i \in 1..Len(log[c]) :
            /\ ~Contains(log[c][i].msg, ApiSecret)
            /\ \A v \in {DictGet(payload[c], "signature")} :
                   Len(v) = 1 => ~Contains(log[c][i].msg, v[1])

\* what the wrapper of thread c builds from the arguments it was called with
OwnParams(c) ==
    IF entry[c] = "market"
    THEN market_payload(intent[c].symbol, intent[c].side, intent[c].quantity, FALSE)
    ELSE IF entry[c] = "limit"
    THEN limit_payload(intent[c].symbol, intent[c].side, intent[c].quantity, intent[c].price,
                       intent[c].timeInForce, FALSE)
    ELSE stop_limit_payload(intent[c].symbol, intent[c].side, intent[c].quantity,
                            intent[c].stopPrice, intent[c].price, intent[c].timeInForce, FALSE)

OwnStamped(c) == Append(OwnParams(c), <<"timestamp", ToString(ts[c].value)>>)

OwnSigned(c) ==
    Append(OwnStamped(c), <<"signature", HmacHex(ApiSecret, urlencode(OwnStamped(c)))>>)

\* C8: in every interleaving of concurrent place_* calls, the request of a call carries
\* the timestamp its own time fetch returned and a signature over its own parameters
\* and that timestamp, nothing of another call; the client's fields never change
C8_CallsIndependent ==
    /\ self = [api_key |-> ApiKey, api_secret |-> ApiSecret, base |-> TESTNET_BASE]
    /\ \A c \in Threads :
           /\ pc[c] = "timestamp" => payload[c] = OwnParams(c)
           /\ pc[c] = "sign" => payload[c] = OwnStamped(c)
           /\ pc[c] = "send" => payload[c] = OwnSigned(c) /\ body[c] = urlencode(OwnSigned(c))
           /\ Requested(c) =>
                  /\ net[c][2].method = "POST"
                  /\ net[c][2].data = urlencode(OwnSigned(c))

C8_Witness ==
    \E c \in Threads, d \in Threads :
        /\ c # d
        /\ Requested(c)
        /\ pc[d] = "send"
        /\ entry[c] # entry[d]
        /\ ts[c].value # ts[d].value

\* C9: when the order request obtains a non-2xx response, the error the caller gets
\* carries the decoded error body when the body decodes, the raw text otherwise
C9_RejectionCarriesBody ==
    \A c \in Threads :
        Requested(c) /\ oresp[c].got /\ ~Is2xx(oresp[c]) =>
            /\ outcome[c].kind = "raise"
            /\ IF json(oresp[c].text).ok
               THEN \A i \in 1..Len(json(oresp[c].text).d) :
                        Contains(outcome[c].msg, json(oresp[c].text).d[i][2])
               ELSE Contains(outcome[c].msg, oresp[c].text)

\* C10: whenever _get_timestamp returns the local clock, a warning has been written to
\* the log during that call
C10_FallbackWarns ==
    \A c \in Threads :
        ts[c].fetched /\ ts[c].value = ts[c].now =>
            \E i \in 1..Len(log[c]) : log[c][i].level = "WARNING"

====
